---- MODULE Spec2Model ----
(***************************************************************************)
(* Model of the JSON:API extension of coworks                              *)
(* (src/coworks/extension/jsonapi): the resource-graph serializer with its *)
(* `included` accumulator, and the `jsonapi` entry decorator with the      *)
(* error mapper installed by JsonApi.init_app.                             *)
(*                                                                         *)
(* Conventions.                                                            *)
(*  - A Python str that the code concatenates or compares (jsonapi_type,   *)
(*    jsonapi_id, accumulator keys) is a sequence of one-character strings,*)
(*    so that `type + id` is \o.                                           *)
(*  - A dotted name ("rel.name") is the sequence of its segments; a prefix *)
(*    ("rel.") is the sequence of the segments before its final dot.       *)
(*    Field names hold no dot, so str.startswith(prefix) is "the segments  *)
(*    of prefix are a prefix of the segments of the name".                 *)
(*  - A dict is the sequence of its items in insertion order.              *)
(*  - `exclude` is always the empty set on the paths modelled: the         *)
(*    decorator calls get_toplevel_from_query without it (jsonapi.py       *)
(*    177-179, 280), so to_be_excluded is empty and is left out.           *)
(***************************************************************************)
EXTENDS Integers, Sequences, FiniteSets, TLC

VARIABLES
    pc,         \* control location of the request / of the serializer call
    ctx,        \* the FetchingContext installed on the request
    graph,      \* the resource objects: [rel: Res -> SUBSET Res, lazy: SUBSET Res]
    args,       \* arguments of the running top-level serializer call
    todo,       \* elements of the page still to be rendered
    stack,      \* call stack of to_ressource_data frames (top is the last)
    included,   \* the accumulator dict: sequence of [key, val]
    data,       \* rendered primary resources
    toplevel,   \* the TopLevel document built by the serializer
    renders,    \* history: how often each resource was rendered for `included`
    reached,    \* history: resources handed to _add_to_included with a value
    cut,        \* history: resources whose key held the tombstone when they were handed over
    ensure_one, \* the decorator's ensure_one parameter
    params,     \* history: the query parameters of the request at hand
    func_res,   \* what the handler returned (res of _jsonapi)
    func_exc,   \* history: what the handler raised, and what the application does with it
    fan,        \* get_toplevel_from_query: the connection at hand and the _toplevels so far
    resp,       \* what the decorator gave back: a response or a raised exception
    pagination, \* the Pagination handed to add_pagination
    document,   \* the TopLevel handed to add_pagination, before and after the call
    filter,     \* a filter handed to a translator: column type, operator, values
    predicate,  \* what the translator gave back for it
    call,       \* a call of another function of the extension: its name and arguments
    result      \* what that call gave back

serVars == <<pc, ctx, graph, args, todo, stack, included, data, toplevel, renders, reached, cut>>

walkVars == <<args, todo, stack, included, data, toplevel, renders, reached, cut>>

decVars == <<ensure_one, params, func_res, func_exc, fan, resp>>

pureVars == <<pagination, document, filter, predicate, call, result>>

vars == <<serVars, decVars, pureVars>>

-----------------------------------------------------------------------------
(* Bounds of the model *)

NumRes == 3
MaxEdges == 2
MaxValues == 2
MaxLazy == 1
MaxPage == 2
MaxSize == 1
MaxConn == 2
MaxErrors == 2
MaxTotal == 3
MaxPerPage == 2
MaxFilterValues == 2
MaxAttr == 2
MaxKeys == 2
MaxSort == 2
MaxId == 2

\* deepest possible nesting is one frame per accumulator key plus the primary one
MaxDepth == NumRes + 2

-----------------------------------------------------------------------------
(* The resource objects the serializer is given *)

Res == 1..NumRes

\* Resource 2 is ("u", "11") and resource 3 is ("u1", "1"): distinct (type, id)
\* pairs whose concatenations are the same str "u11".
jsonapi_type(r) ==
    IF ((r - 1) \div 2) % 2 = 0 THEN <<"u">> ELSE <<"u", "1">>

jsonapi_id(r) ==
    IF (r - 1) % 2 = 0 THEN [i \in 1..(1 + (r - 1) \div 4) |-> "1"]
    ELSE [i \in 1..(2 + (r - 1) \div 4) |-> "1"]

Types == {jsonapi_type(r) : r \in Res}

\* model_fields of the resources: a scalar field and a list of related models
FieldNames == {"name", "rel"}

\* the elements of a set of resources as a list, in ascending order
RECURSIVE SetToSeq(_)
SetToSeq(S) ==
    IF S = {} THEN <<>>
    ELSE LET m == CHOOSE x \in S : \A y \in S : x <= y
         IN <<m>> \o SetToSeq(S \ {m})

Range(s) == {s[i] : i \in DOMAIN s}

\* resources reachable from the set R along the relationship `rel`
RECURSIVE Reach(_, _)
Reach(rel, R) ==
    LET N == R \cup UNION {rel[r] : r \in R}
    IN IF N = R THEN R ELSE Reach(rel, N)

EdgeCount(rel) == Cardinality({e \in Res \X Res : e[2] \in rel[e[1]]})

Targets(rel) == UNION {rel[r] : r \in Res}

\* every relationship graph with at most MaxEdges edges, in which at most
\* MaxLazy of the related resources are referenced without their value
AllGraphs ==
    {g \in [rel : {rel \in [Res -> SUBSET Res] : EdgeCount(rel) <= MaxEdges},
            lazy : {l \in SUBSET Res : Cardinality(l) <= MaxLazy}] :
        g.lazy \subseteq Targets(g.rel)}

\* the graphs of at most maxEdges edges that all hang off `roots`
GraphsFrom(roots, maxEdges) ==
    {g \in AllGraphs :
        /\ EdgeCount(g.rel) <= maxEdges
        /\ \A r \in Res : g.rel[r] # {} => r \in Reach(g.rel, roots)}

\* the lists a query holds: the first k resources, k <= n
Lists(n) == {[i \in 1..k |-> i] : k \in 0..n}

-----------------------------------------------------------------------------
(* FetchingContext (fetching.py) *)

DefaultPage == 1
DefaultPerPage == 100
DefaultMaxPerPage == 100

\* the connection manager FetchingContext.__init__ installs: not iterable
nullcontext == [iterable |-> FALSE, conns |-> 0]

\* k.rsplit('.', 1) of a filter key given as the sequence of its segments
rsplit(k) ==
    IF Len(k) >= 2 THEN <<SubSeq(k, 1, Len(k) - 1), k[Len(k)]>> ELSE <<k>>

\* the unpacking `json_type, filter = k.rsplit('.', 1)` raises for some key
filters_raise(filters__) ==
    \E i \in DOMAIN filters__ : Len(rsplit(filters__[i])) # 2

RECURSIVE context_filters(_)
\* the _filters dict built from well-formed keys: json_type -> list of filter
\* names (the values are carried along unchanged and left out)
context_filters(filters__) ==
    IF filters__ = <<>> THEN <<>>
    ELSE LET d == context_filters(SubSeq(filters__, 1, Len(filters__) - 1))
             k == rsplit(filters__[Len(filters__)])
             old == IF \E i \in DOMAIN d : d[i].key = k[1]
                    THEN (CHOOSE e \in Range(d) : e.key = k[1]).val
                    ELSE <<>>
             new == [key |-> k[1], val |-> Append(old, k[2])]
         IN IF old = <<>> THEN Append(d, new)
            ELSE [i \in DOMAIN d |-> IF d[i].key = k[1] THEN new ELSE d[i]]

\* FetchingContext.__init__.  `include` is the comma-separated parameter as the
\* list of its items, `fields__` maps a type to the list of the items of its
\* comma-separated value, each item of either a dotted name; a
\* page parameter that is None or 0 is 0 (both are falsy for `or`).
FetchingContext(include, fields__, filters__, page__number__, page__size__, page__max__) ==
    [include |-> Range(include),
     fields |-> fields__,
     filters |-> context_filters(filters__),
     page |-> IF page__number__ = 0 THEN DefaultPage ELSE page__number__,
     per_page |-> IF page__size__ = 0 THEN DefaultPerPage ELSE page__size__,
     max_per_page |-> IF page__max__ = 0 THEN DefaultMaxPerPage ELSE page__max__,
     connection_manager |-> nullcontext]

\* FetchingContext.field_names
field_names(c, jsonapi_type_) ==
    IF jsonapi_type_ \notin DOMAIN c.fields THEN {}
    ELSE Range(c.fields[jsonapi_type_])

RECURSIVE Flatten(_)
\* [x for s in ss for x in s]
Flatten(ss) == IF ss = <<>> THEN <<>> ELSE ss[1] \o Flatten(Tail(ss))

RECURSIVE join(_)
\* '.'.join(segments): the string a sequence of segments spells
join(segments) ==
    IF segments = <<>> THEN <<>>
    ELSE IF Len(segments) = 1 THEN segments[1]
    ELSE segments[1] \o <<".">> \o join(Tail(segments))

\* str.startswith
startswith(str, prefix) ==
    Len(prefix) <= Len(str) /\ SubSeq(str, 1, Len(prefix)) = prefix

\* FetchingContext.get_filter_parameters: the columns of the criteria of every
\* key of _filters that starts with jsonapi_type, in the order of the dict;
\* what follows jsonapi_type in the key, less its first character, is put
\* before the column
get_filter_parameters(c, jsonapi_type_) ==
    Flatten([i \in DOMAIN c.filters |->
        LET k == join(c.filters[i].key)
            prefix == SubSeq(k, Len(jsonapi_type_) + 1, Len(k))
        IN IF ~startswith(k, jsonapi_type_) THEN <<>>
           ELSE [j \in DOMAIN c.filters[i].val |->
                   IF prefix # <<>>
                   THEN Tail(prefix) \o <<".">> \o c.filters[i].val[j]
                   ELSE c.filters[i].val[j]]])

-----------------------------------------------------------------------------
(* The serializer (jsonapi.py) *)

\* the accumulator's tombstone: the key is present and its value is None
None == [res |-> 0, type |-> <<>>, id |-> <<>>, attributes |-> {},
         relationships |-> <<>>, has_included |-> FALSE]

\* _remove_prefix: the names of set_names directly under prefix
remove_prefix(set_names, prefix) ==
    {p[Len(p)] : p \in {q \in set_names :
                          /\ Len(q) = Len(prefix) + 1
                          /\ SubSeq(q, 1, Len(prefix)) = prefix}}

\* JsonApiBaseModel.jsonapi_attributes with an empty exclude: the attribute
\* names and the list-valued relationship `rel`.  An empty list is falsy for
\* _is_basemodel, so a resource with no related model keeps `rel` as attribute.
jsonapi_attributes(g, r, include) ==
    LET kept == {k \in FieldNames : include = {} \/ k \in include}
        isrel == g.rel[r] # {}
    IN [attrs |-> {k \in kept : ~(k = "rel" /\ isrel)},
        rels |-> IF "rel" \in kept /\ isrel THEN SetToSeq(g.rel[r]) ELSE <<>>]

\* JsonApiRelationship.resource_value is truthy
resource_value(g, r) == r \notin g.lazy

\* res.jsonapi_type + res.jsonapi_id
included_key(r) == jsonapi_type(r) \o jsonapi_id(r)

\* a membership test that never finds the key
in_included_never(inc, res_key) == FALSE

\* res_key in included
in_included(inc, res_key) == \E i \in DOMAIN inc : inc[i].key = res_key

\* included[res_key] = val
dict_set(inc, res_key, val) ==
    IF \E i \in DOMAIN inc : inc[i].key = res_key
    THEN [i \in DOMAIN inc |->
            IF inc[i].key = res_key THEN [key |-> res_key, val |-> val] ELSE inc[i]]
    ELSE Append(inc, [key |-> res_key, val |-> val])

\* to_ressource_data up to its loop over the relationships (lines 211-235):
\* the frame of the call. ret is the accumulator key the result is stored
\* under, <<>> for primary data.
to_ressource_data(g, r, prefix, include, ret) ==
    LET ar == jsonapi_attributes(g, r, remove_prefix(include, prefix))
    IN [res |-> r,
        prefix |-> prefix,
        include |-> IF include # {} THEN include
                    ELSE IF ar.rels # <<>> THEN {<<"rel">>} ELSE {},
        attrs |-> ar.attrs,
        targets |-> ar.rels,
        idx |-> 1,
        res_ids |-> <<>>,
        ret |-> ret]

\* get_resource_identifier
get_resource_identifier(r) == [type |-> jsonapi_type(r), id |-> jsonapi_id(r)]

\* the resource_data dict a finished frame returns (lines 254-267)
resource_data(f, inc) ==
    [res |-> f.res,
     type |-> jsonapi_type(f.res),
     id |-> jsonapi_id(f.res),
     attributes |-> f.attrs,
     relationships |-> f.res_ids,
     has_included |-> inc # <<>>]

Top == stack[Len(stack)]

SetTop(f) == [stack EXCEPT ![Len(stack)] = f]

-----------------------------------------------------------------------------
(* Pagination of a list (query.py, data.py) *)

DefaultCursorPerPage == 20

\* values[start:stop] for 0 <= start <= stop
Slice(values, start, stop) ==
    LET lo == IF start > Len(values) THEN Len(values) ELSE start
        hi == IF stop > Len(values) THEN Len(values) ELSE stop
    IN IF hi <= lo THEN <<>> ELSE SubSeq(values, lo + 1, hi)

\* ListQuery.paginate: a ListPagination, whose validators replace a falsy
\* page or per_page and whose total is len(values); max_per_page is not used
ListPagination(values, page, per_page) ==
    [values |-> values,
     total |-> Len(values),
     page |-> IF page = 0 THEN 1 ELSE page,
     per_page |-> IF per_page = 0 THEN DefaultCursorPerPage ELSE per_page]

\* ListPagination.__iter__, were its slice to start one page further
PageItems_next_page(p) == Slice(p.values, p.page * p.per_page, (p.page + 1) * p.per_page)

\* ListPagination.__iter__
PageItems(p) == Slice(p.values, (p.page - 1) * p.per_page, p.page * p.per_page)

\* CursorPagination.pages, were it to round the quotient down
pages_floor(p) ==
    IF p.total = 0 THEN 1 ELSE p.total \div p.per_page

\* CursorPagination.pages: ceil(total / per_page), 1 when total is 0
pages(p) ==
    IF p.total = 0 THEN 1 ELSE (p.total + p.per_page - 1) \div p.per_page

has_prev(p) == p.page > 1

has_next(p) == p.page < pages(p)

\* CursorPagination.prev_num: None is 0
prev_num(p) == IF ~has_prev(p) THEN 0 ELSE p.page - 1

\* CursorPagination.next_num: None is 0
next_num(p) == IF ~has_next(p) THEN 0 ELSE p.page + 1

\* CursorPagination(total=..., page=..., per_page=...) with its validators
CursorPagination(total, page, per_page) ==
    [total |-> total,
     page |-> IF page = 0 THEN 1 ELSE page,
     per_page |-> IF per_page = 0 THEN DefaultCursorPerPage ELSE per_page]

\* links[rel] = Link(...): a link is the page[number] it overrides
link_set(links, rel, number) ==
    {l \in links : l.rel # rel} \cup {[rel |-> rel, number |-> number]}

\* FetchingContext.add_pagination, were it to replace the meta of the document
add_pagination_new_meta(doc, p) ==
    LET links1 == IF has_prev(p) THEN link_set(doc.links, "prev", prev_num(p)) ELSE doc.links
        links2 == IF has_next(p) THEN link_set(links1, "next", next_num(p)) ELSE links1
    IN [doc EXCEPT
          !.links = IF p.total > 1 THEN links2 ELSE doc.links,
          !.meta = [kind |-> "pagination", count |-> p.total, page |-> p.page,
                    pages |-> pages(p), per_page |-> p.per_page, other |-> {}]]

\* FetchingContext.add_pagination: the meta of a document is the record of its
\* count and pagination entries (kind says which of them it holds) and the set
\* of its other keys
add_pagination(doc, p) ==
    LET links1 == IF has_prev(p) THEN link_set(doc.links, "prev", prev_num(p)) ELSE doc.links
        links2 == IF has_next(p) THEN link_set(links1, "next", next_num(p)) ELSE links1
    IN [doc EXCEPT
          !.links = IF p.total > 1 THEN links2 ELSE doc.links,
          !.meta = [kind |-> "pagination", count |-> p.total, page |-> p.page,
                    pages |-> pages(p), per_page |-> p.per_page, other |-> doc.meta.other]]

NoMeta == [kind |-> "none", count |-> 0, page |-> 0, pages |-> 0, per_page |-> 0, other |-> {}]

\* TopLevel(data=..., included=... if included else None)
TopLevel(data_kind, data_, included_) ==
    [data_kind |-> data_kind,
     data |-> data_,
     included |-> [i \in DOMAIN included_ |-> included_[i].val],
     errors_kind |-> "none",
     errors |-> <<>>,
     meta |-> NoMeta,
     links |-> {}]

NoDoc == [data_kind |-> "none", data |-> <<>>, included |-> <<>>,
          errors_kind |-> "none", errors |-> <<>>, meta |-> NoMeta, links |-> {}]

NoArgs == [fn |-> "none", res |-> 0, pagination |-> ListPagination(<<>>, 0, 0), include |-> {},
           paginate |-> <<0, 0, 0>>]

NoRes == [kind |-> "none", values |-> <<>>, doc |-> NoDoc]

NoFan == [ensure_one |-> FALSE, conn |-> 0, toplevels |-> <<>>, log |-> <<>>]

NoExc == [e |-> [kind |-> "none", code |-> 0, n |-> 0, has_errors |-> FALSE, errors |-> <<>>],
          accept |-> FALSE, orig |-> "", orig_http |-> "", at |-> "none"]

NoResp == [kind |-> "none", status |-> 0, content_type |-> "", doc |-> NoDoc, exc |-> ""]

NoPagination == [total |-> 0, page |-> 0, per_page |-> 0]

NoFilter == [translator |-> "", type |-> "", oper |-> "", values |-> 0]

NoPredicate == [kind |-> "none", oper |-> "", n |-> 0, holds |-> FALSE, exc |-> ""]

NoParams == [include |-> <<>>, filters |-> <<>>, number |-> 0, size |-> 0, max |-> 0]

NoCall == [fn |-> "none"]

NoResult == [kind |-> "none"]

\* no pure function is under study
PureIdle ==
    /\ pagination = NoPagination
    /\ document = NoDoc
    /\ filter = NoFilter
    /\ predicate = NoPredicate
    /\ call = NoCall
    /\ result = NoResult

-----------------------------------------------------------------------------
(* Steps of the serializer *)

\* toplevel_from_data, up to its call of to_ressource_data
toplevel_from_data ==
    /\ pc = "call"
    /\ args.fn = "data"
    /\ included' = <<>>
    /\ data' = <<>>
    /\ todo' = <<>>
    /\ stack' = <<to_ressource_data(graph, args.res, <<>>,
                    field_names(ctx, jsonapi_type(args.res)) \cup args.include, <<>>)>>
    /\ pc' = "walk"
    /\ UNCHANGED <<ctx, graph, args, toplevel, renders, reached, cut, decVars, pureVars>>

\* toplevel_from_pagination, up to its loop over the page
toplevel_from_pagination ==
    /\ pc = "call"
    /\ args.fn = "page"
    /\ included' = <<>>
    /\ data' = <<>>
    /\ todo' = PageItems(args.pagination)
    /\ stack' = <<>>
    /\ pc' = "walk"
    /\ UNCHANGED <<ctx, graph, args, toplevel, renders, reached, cut, decVars, pureVars>>

\* the loop of toplevel_from_pagination calls to_ressource_data on the next element
NextElement ==
    /\ pc = "walk"
    /\ stack = <<>>
    /\ todo # <<>>
    /\ stack' = <<to_ressource_data(graph, Head(todo), <<>>,
                    field_names(ctx, jsonapi_type(Head(todo))) \cup args.include, <<>>)>>
    /\ todo' = Tail(todo)
    /\ UNCHANGED <<pc, ctx, graph, args, included, data, toplevel, renders, reached, cut, decVars, pureVars>>

\* one turn of the relationship loop of to_ressource_data: the identifier is
\* collected and _add_to_included is called, which either returns at once or
\* puts the tombstone and calls to_ressource_data on the related resource
add_to_included ==
    /\ pc = "walk"
    /\ stack # <<>>
    /\ Top.idx <= Len(Top.targets)
    /\ LET res == Top.targets[Top.idx]
           res_key == included_key(res)
           caller == [Top EXCEPT !.idx = @ + 1,
                                 !.res_ids = Append(@, get_resource_identifier(res))]
           new_prefix == Top.prefix \o <<"rel">>
           names == field_names(ctx, jsonapi_type(res))
           filtered_fields ==
               IF names # {} THEN {new_prefix \o n : n \in names} \cup Top.include
               ELSE Top.include
       IN IF ~in_included(included, res_key) /\ resource_value(graph, res)
          THEN /\ Len(stack) < MaxDepth
               /\ included' = dict_set(included, res_key, None)
               /\ stack' = Append(SetTop(caller),
                             to_ressource_data(graph, res, new_prefix, filtered_fields, res_key))
               /\ renders' = [renders EXCEPT ![res] = @ + 1]
               /\ reached' = reached \cup {res}
               /\ cut' = cut
          ELSE /\ stack' = SetTop(caller)
               /\ reached' = IF resource_value(graph, res) THEN reached \cup {res} ELSE reached
               /\ cut' = IF \E i \in DOMAIN included :
                               included[i].key = res_key /\ included[i].val = None
                          THEN cut \cup {res} ELSE cut
               /\ UNCHANGED <<included, renders>>
    /\ UNCHANGED <<pc, ctx, graph, args, todo, data, toplevel, decVars, pureVars>>

\* to_ressource_data returns, were its result never stored in the accumulator
Return_not_stored ==
    /\ pc = "walk"
    /\ stack # <<>>
    /\ Top.idx > Len(Top.targets)
    /\ stack' = SubSeq(stack, 1, Len(stack) - 1)
    /\ IF Top.ret # <<>>
       THEN /\ included' = included
            /\ data' = data
       ELSE /\ data' = Append(data, resource_data(Top, included))
            /\ included' = included
    /\ UNCHANGED <<pc, ctx, graph, args, todo, toplevel, renders, reached, cut, decVars, pureVars>>

\* to_ressource_data returns: to _add_to_included, which stores the resource
\* under its key, or to the top-level function, which keeps it as primary data
Return ==
    /\ pc = "walk"
    /\ stack # <<>>
    /\ Top.idx > Len(Top.targets)
    /\ stack' = SubSeq(stack, 1, Len(stack) - 1)
    /\ IF Top.ret # <<>>
       THEN /\ included' = dict_set(included, Top.ret, resource_data(Top, included))
            /\ data' = data
       ELSE /\ data' = Append(data, resource_data(Top, included))
            /\ included' = included
    /\ UNCHANGED <<pc, ctx, graph, args, todo, toplevel, renders, reached, cut, decVars, pureVars>>

\* the top-level function builds its TopLevel and returns
Assemble ==
    /\ pc = "walk"
    /\ stack = <<>>
    /\ todo = <<>>
    /\ toplevel' = IF args.fn = "data"
                   THEN TopLevel("object", data, included)
                   ELSE add_pagination(TopLevel("array", data, included), args.pagination)
    /\ pc' = "returned"
    /\ UNCHANGED <<ctx, graph, args, todo, stack, included, data, renders, reached, cut, decVars, pureVars>>

-----------------------------------------------------------------------------
(* The serializer called on its own *)

\* the `include` parameter as the list of its comma-separated items
IncludeParams == {<<>>, <<<<"rel">>>>, <<<<"rel">>, <<"rel", "name">>>>}

\* the `fields` parameter: no sparse fieldset, or fields[u]=name
FieldsParams == {[t \in {} |-> <<>>], [t \in {<<"u">>} |-> <<<<"name">>>>]}

\* the serializer starts where get_toplevel calls toplevel_from_data on a
\* resource or toplevel_from_pagination on a page of a list
InitSer ==
    /\ pc = "call"
    /\ \E inc \in IncludeParams, f \in FieldsParams :
         \/ /\ ctx = FetchingContext(inc, f, <<>>, 0, 0, 0)
            /\ \E r \in Res :
                 /\ args = [NoArgs EXCEPT !.fn = "data", !.res = r, !.include = ctx.include]
                 /\ graph \in GraphsFrom({r}, MaxEdges)
         \/ \E values \in Lists(MaxValues) :
                 /\ ctx = FetchingContext(inc, f, <<>>, 0, 0, 0)
                 /\ args = [NoArgs EXCEPT !.fn = "page", !.include = ctx.include,
                              !.pagination = ListPagination(values, ctx.page, ctx.per_page)]
                 /\ graph \in GraphsFrom(Range(values), MaxEdges)
    /\ todo = <<>>
    /\ stack = <<>>
    /\ included = <<>>
    /\ data = <<>>
    /\ toplevel = NoDoc
    /\ renders = [r \in Res |-> 0]
    /\ reached = {}
    /\ cut = {}
    /\ ensure_one = FALSE
    /\ params = NoParams
    /\ func_res = NoRes
    /\ func_exc = NoExc
    /\ fan = NoFan
    /\ resp = NoResp
    /\ PureIdle

NextSer ==
    \/ toplevel_from_data
    \/ toplevel_from_pagination
    \/ NextElement
    \/ add_to_included
    \/ Return
    \/ Assemble

SpecSer == InitSer /\ [][NextSer]_vars

FairSer == SpecSer /\ WF_vars(NextSer)

-----------------------------------------------------------------------------
(* Errors and error documents *)

\* werkzeug's BadRequest.code, NotFound.code and InternalServerError.code
BadRequestCode == 400
NotFoundCode == 404
InternalServerErrorCode == 500
UnprocessableEntityCode == 422

\* str(None): what JsonApiError stores as status when none is given
\* (`str(status) or ...` never takes its default).  Statuses are compared as
\* strings; three-digit codes compare as their numbers do and "None" compares
\* above every one of them.
NoneStatus == 999

Statuses == {BadRequestCode, NotFoundCode, InternalServerErrorCode}

Error(title, status) == [title |-> title, status |-> status]

\* lists of at most n Error objects
ErrorLists(n) ==
    UNION {[1..k -> {Error("Error", s) : s \in Statuses}] : k \in 0..n}

\* JsonApiError.__init__, by the type of its first argument: an id ("str")
\* with an optional status, another JsonApiError (errors is never assigned),
\* an exception, or a list of errors
JsonApiError(isinstance, id_or_error, status) ==
    [kind |-> "JsonApiError", code |-> 0, n |-> 0,
     has_errors |-> isinstance # "JsonApiError",
     errors |-> CASE isinstance = "str" -> <<Error("title", status)>>
                  [] isinstance = "JsonApiError" -> <<>>
                  [] isinstance = "Exception" -> <<Error("Exception", InternalServerErrorCode)>>
                  [] OTHER -> id_or_error]

\* pydantic's ValidationError on n fields
ValidationError(n) ==
    [kind |-> "ValidationError", code |-> 0, n |-> n, has_errors |-> TRUE, errors |-> <<>>]

\* a werkzeug HTTPException with its code
HTTPException(code) ==
    [kind |-> "HTTPException", code |-> code, n |-> 0, has_errors |-> FALSE, errors |-> <<>>]

\* any other exception
Exception ==
    [kind |-> "Exception", code |-> 0, n |-> 0, has_errors |-> FALSE, errors |-> <<>>]

\* what a handler can raise
Exceptions ==
    {JsonApiError("str", <<>>, s) : s \in Statuses \cup {NoneStatus}}
    \cup {JsonApiError("JsonApiError", <<>>, 0), JsonApiError("Exception", <<>>, 0)}
    \cup {JsonApiError("list", l, 0) : l \in ErrorLists(MaxErrors)}
    \cup {ValidationError(n) : n \in 1..MaxErrors}
    \cup {HTTPException(c) : c \in Statuses}
    \cup {Exception}

RECURSIVE Max(_)
\* max over a non-empty list of statuses
Max(s) ==
    IF Len(s) = 1 THEN s[1]
    ELSE LET m == Max(Tail(s)) IN IF s[1] >= m THEN s[1] ELSE m

Raised(exc) == [NoResp EXCEPT !.kind = "raised", !.exc = exc]

\* a response made by a handler of the application, not by this extension
Foreign == [NoResp EXCEPT !.kind = "foreign"]

\* a response that takes the status of its first error
error_status_first(errors, status_code) ==
    IF status_code = 0 THEN errors[1].status ELSE status_code

\* the status _toplevel_error_response gives when none is passed (0)
error_status(errors, status_code) ==
    IF status_code = 0 THEN Max([i \in DOMAIN errors |-> errors[i].status]) ELSE status_code

\* an error document that carries an empty data array as well
error_document_with_data(errors) ==
    [NoDoc EXCEPT !.data_kind = "array", !.errors_kind = "array", !.errors = errors]

\* TopLevel(errors=errors)
error_document(errors) == [NoDoc EXCEPT !.errors_kind = "array", !.errors = errors]

\* _toplevel_error_response: max() of no status raises ValueError
toplevel_error_response(errors, status_code) ==
    IF status_code = 0 /\ errors = <<>>
    THEN Raised("ValueError")
    ELSE [kind |-> "error",
          status |-> error_status(errors, status_code),
          content_type |-> "application/vnd.api+json",
          doc |-> error_document(errors),
          exc |-> ""]

\* a mapping that reports the exception as a whole only
validation_errors_one(e) == <<Error("ValidationError", BadRequestCode)>>

\* the errors built from a ValidationError: one per e.errors(), then the
\* summary of the exception itself
validation_errors(e) ==
    [i \in 1..e.n |-> Error("field", BadRequestCode)]
    \o <<Error("ValidationError", BadRequestCode)>>

\* the except clauses shared by both patched handlers
except_JsonApiError(e) ==
    IF e.has_errors THEN toplevel_error_response(e.errors, 0) ELSE Raised("AttributeError")

except_HTTPException(e) ==
    toplevel_error_response(<<Error(e.kind, e.code)>>, e.code)

\* JsonApi.init_app._handle_http_exception; orig is what the application's
\* own handle_http_exception does: it returns a response or raises
handle_http_exception(e, accept, orig) ==
    IF ~accept \/ orig = "returns"
    THEN IF orig = "returns" THEN Foreign ELSE Raised(e.kind)
    ELSE IF e.kind = "JsonApiError" THEN except_JsonApiError(e)
         ELSE except_HTTPException(e)

\* JsonApi.init_app._handle_user_exception; orig is what the application's own
\* handle_user_exception does: it returns a response, raises the exception
\* again, or passes an HTTPException on to handle_http_exception
handle_user_exception(e, accept, orig, orig_http) ==
    IF orig = "delegates" THEN handle_http_exception(e, accept, orig_http)
    ELSE IF orig = "returns" THEN Foreign
    ELSE IF ~accept THEN Raised(e.kind)
    ELSE CASE e.kind = "JsonApiError" -> except_JsonApiError(e)
           [] e.kind = "ValidationError" ->
                toplevel_error_response(validation_errors(e), BadRequestCode)
           [] e.kind = "HTTPException" -> except_HTTPException(e)
           [] OTHER ->
                toplevel_error_response(<<Error(e.kind, InternalServerErrorCode)>>,
                                        InternalServerErrorCode)

\* what the application's own handlers can do with exception e
OrigOutcomes(e) ==
    {"returns", "raises"} \cup (IF e.kind = "HTTPException" THEN {"delegates"} ELSE {})

-----------------------------------------------------------------------------
(* The entry decorator *)

NoFields == [t \in {} |-> <<>>]

NoGraph == [rel |-> [r \in Res |-> {}], lazy |-> {}]

\* what a handler can return: a query or a scalar result over its rows, a
\* document it built itself, or something else
PrebuiltDocs ==
    {TopLevel("array", <<>>, <<>>),
     [NoDoc EXCEPT !.errors_kind = "array", !.errors = <<Error("Error", NotFoundCode)>>]}

Results ==
    {[kind |-> k, values |-> v, doc |-> NoDoc] : k \in {"Query", "ScalarResult"}, v \in Lists(MaxValues)}
    \cup {[kind |-> "TopLevel", values |-> <<>>, doc |-> d] : d \in PrebuiltDocs}
    \cup {[kind |-> "Other", values |-> <<>>, doc |-> NoDoc]}

\* the connection manager the handler leaves in the context: the default
\* nullcontext or an iterable of connections
ConnectionManagers == {nullcontext} \cup {[iterable |-> TRUE, conns |-> k] : k \in 0..MaxConn}

\* the resources behind a handler's rows: at most one of the rows has a
\* relationship, to one resource
HandlerGraphs(r) ==
    {NoGraph} \cup {[rel |-> [x \in Res |-> IF x = a THEN {b} ELSE {}], lazy |-> {}] :
                        a \in Range(r.values), b \in Res}

\* the decorator's return: the dumped document and code 200
document_response(doc) ==
    [kind |-> "document", status |-> 200, content_type |-> "", doc |-> doc, exc |-> ""]

\* a dispatch that passes the decorator's ensure_one for every result
query_ensure_one_passed(r, e1) == e1

\* the ensure_one the decorator passes to get_toplevel_from_query
query_ensure_one(r, e1) == IF r.kind = "ScalarResult" THEN TRUE ELSE e1

\* an except clause that always raises again
reraise_not_found_always(e1) == TRUE

\* the decorator's except NotFound clause: raise again or fall back
reraise_not_found(e1) == e1

not_found_response(e1) ==
    IF reraise_not_found(e1) THEN Raised("NotFound")
    ELSE document_response(TopLevel("array", <<>>, <<>>))

\* a one() that takes the first of several values
one_first(values) ==
    IF Len(values) = 0 THEN [raised |-> "NoResultFound", value |-> 0]
    ELSE [raised |-> "", value |-> values[1]]

\* ListQuery.one: NoResultFound, MultipleResultsFound or the only value
one(values) ==
    IF Len(values) = 0 THEN [raised |-> "NoResultFound", value |-> 0]
    ELSE IF Len(values) > 1 THEN [raised |-> "MultipleResultsFound", value |-> 0]
    ELSE [raised |-> "", value |-> values[1]]

RECURSIVE dict_of(_)
\* {i.type + i.id: i for i in items}
dict_of(items) ==
    IF items = <<>> THEN <<>>
    ELSE LET i == items[Len(items)]
         IN dict_set(dict_of(SubSeq(items, 1, Len(items) - 1)), i.type \o i.id, i)

\* the merge, were it to keep the meta and the links of the first connection
\* whatever the number of connections
merge_toplevels_first(tops) ==
    IF \E i \in DOMAIN tops : tops[i].data_kind = "object"
    THEN Raised("ValidationError")
    ELSE LET data_ == Flatten([i \in DOMAIN tops |-> tops[i].data])
             included_ == dict_of(Flatten([i \in DOMAIN tops |-> tops[i].included]))
             doc == TopLevel("array", data_, included_)
         IN document_response(
              IF Len(tops) >= 1
              THEN [doc EXCEPT !.meta = tops[1].meta, !.links = tops[1].links]
              ELSE [doc EXCEPT !.meta = [NoMeta EXCEPT !.kind = "count", !.count = Len(data_)]])

\* the merge that ends the loop over the connections; iterating the single
\* Resource of a toplevel_from_data document does not give resources, and
\* TopLevel rejects what it gives
merge_toplevels(tops) ==
    IF \E i \in DOMAIN tops : tops[i].data_kind = "object"
    THEN Raised("ValidationError")
    ELSE LET data_ == Flatten([i \in DOMAIN tops |-> tops[i].data])
             included_ == dict_of(Flatten([i \in DOMAIN tops |-> tops[i].included]))
             doc == TopLevel("array", data_, included_)
         IN document_response(
              IF Len(tops) = 1
              THEN [doc EXCEPT !.meta = tops[1].meta, !.links = tops[1].links]
              ELSE [doc EXCEPT !.meta = [NoMeta EXCEPT !.kind = "count", !.count = Len(data_)]])

\* no request is at hand
Init ==
    /\ pc = "idle"
    /\ ctx = FetchingContext(<<>>, NoFields, <<>>, 0, 0, 0)
    /\ graph = NoGraph
    /\ args = NoArgs
    /\ todo = <<>>
    /\ stack = <<>>
    /\ included = <<>>
    /\ data = <<>>
    /\ toplevel = NoDoc
    /\ renders = [r \in Res |-> 0]
    /\ reached = {}
    /\ cut = {}
    /\ ensure_one = FALSE
    /\ params = NoParams
    /\ func_res = NoRes
    /\ func_exc = NoExc
    /\ fan = NoFan
    /\ resp = NoResp
    /\ PureIdle

\* the `filters` parameter: none, filter[u.n], filter[n], or both; a key is
\* the sequence of its dot-separated segments, a segment a sequence of characters
FilterParams ==
    {<<>>, <<<<<<"u">>, <<"n">>>>>>, <<<<<<"n">>>>>>, <<<<<<"u">>, <<"n">>>>, <<<<"n">>>>>>}

\* the query parameters of a request: include and page number and size, or
\* page[max] alone, or filters alone; page[number] is absent (0) or names a
\* page after the first, which is the default
RequestParams ==
    {[include |-> inc, filters |-> <<>>, number |-> number, size |-> size, max |-> 0] :
        inc \in IncludeParams, number \in {0} \cup 2..MaxPage, size \in 0..MaxSize}
    \cup {[include |-> <<>>, filters |-> <<>>, number |-> 0, size |-> 0, max |-> max] :
        max \in 1..MaxSize}
    \cup {[include |-> <<>>, filters |-> f, number |-> 0, size |-> 0, max |-> 0] :
        f \in FilterParams}

\* _jsonapi, were the include set of the context shared by the requests
Request_shared_include ==
    /\ pc \in {"idle", "done", "rejected"}
    /\ \E e1 \in BOOLEAN, p \in RequestParams :
         /\ ~filters_raise(p.filters)
         /\ ensure_one' = e1
         /\ ctx' = [FetchingContext(p.include, NoFields, p.filters, p.number, p.size, p.max)
                        EXCEPT !.include = @ \cup ctx.include]
         /\ params' = p
    /\ pc' = "func"
    /\ graph' = NoGraph
    /\ args' = NoArgs
    /\ todo' = <<>>
    /\ stack' = <<>>
    /\ included' = <<>>
    /\ data' = <<>>
    /\ toplevel' = NoDoc
    /\ renders' = [r \in Res |-> 0]
    /\ reached' = {}
    /\ cut' = {}
    /\ func_res' = NoRes
    /\ func_exc' = NoExc
    /\ fan' = NoFan
    /\ resp' = NoResp
    /\ UNCHANGED pureVars

\* _jsonapi is called for a request and installs its FetchingContext
Request ==
    /\ pc \in {"idle", "done", "rejected"}
    /\ \E e1 \in BOOLEAN, p \in RequestParams :
         /\ ~filters_raise(p.filters)
         /\ ensure_one' = e1
         /\ ctx' = FetchingContext(p.include, NoFields, p.filters, p.number, p.size, p.max)
         /\ params' = p
    /\ pc' = "func"
    /\ graph' = NoGraph
    /\ args' = NoArgs
    /\ todo' = <<>>
    /\ stack' = <<>>
    /\ included' = <<>>
    /\ data' = <<>>
    /\ toplevel' = NoDoc
    /\ renders' = [r \in Res |-> 0]
    /\ reached' = {}
    /\ cut' = {}
    /\ func_res' = NoRes
    /\ func_exc' = NoExc
    /\ fan' = NoFan
    /\ resp' = NoResp
    /\ UNCHANGED pureVars

\* _jsonapi is called for a request with a filter key that holds no dot:
\* create_fetching_context_proxy raises before the try, no context is installed
create_fetching_context_raises ==
    /\ pc \in {"idle", "done", "rejected"}
    /\ \E e1 \in BOOLEAN, p \in RequestParams :
         /\ filters_raise(p.filters)
         /\ ensure_one' = e1
         /\ params' = p
    /\ ctx' = FetchingContext(<<>>, NoFields, <<>>, 0, 0, 0)
    /\ resp' = Raised("ValueError")
    /\ pc' = "rejected"
    /\ graph' = NoGraph
    /\ args' = NoArgs
    /\ todo' = <<>>
    /\ stack' = <<>>
    /\ included' = <<>>
    /\ data' = <<>>
    /\ toplevel' = NoDoc
    /\ renders' = [r \in Res |-> 0]
    /\ reached' = {}
    /\ cut' = {}
    /\ func_res' = NoRes
    /\ func_exc' = NoExc
    /\ fan' = NoFan
    /\ UNCHANGED pureVars

\* func(*args, **kwargs) raises: the except clause returns what
\* current_app.handle_user_exception gives, or lets what it raises through
func_raises ==
    /\ pc = "func"
    /\ \E e \in Exceptions, accept \in BOOLEAN :
       \E orig \in OrigOutcomes(e), orig_http \in {"returns", "raises"} :
         /\ func_exc' = [e |-> e, accept |-> accept, orig |-> orig,
                         orig_http |-> IF orig = "delegates" THEN orig_http ELSE "", at |-> "call"]
         /\ resp' = handle_user_exception(e, accept, orig, orig_http)
    /\ pc' = "done"
    /\ UNCHANGED <<ctx, graph, walkVars>>
    /\ UNCHANGED <<ensure_one, params, func_res, fan, pureVars>>

\* what the handler gives is at hand: its rows, the resources behind them
\* and the connection manager it left in the context
Returned ==
    \E r \in Results, cm \in ConnectionManagers :
        /\ func_res' = r
        /\ graph' \in HandlerGraphs(r)
        /\ ctx' = [ctx EXCEPT !.connection_manager = cm]
        /\ pc' = "dispatch"
        /\ UNCHANGED walkVars
        /\ UNCHANGED <<ensure_one, params, func_exc, fan, resp, pureVars>>

\* func returns a result that is not a coroutine
func_returns ==
    /\ pc = "func"
    /\ Returned

\* func returns a coroutine
func_returns_coroutine ==
    /\ pc = "func"
    /\ pc' = "await"
    /\ UNCHANGED <<ctx, graph, walkVars, decVars, pureVars>>

\* res = await res gives the result
await_returns ==
    /\ pc = "await"
    /\ Returned

\* res = await res raises: no except clause is around it
await_raises ==
    /\ pc = "await"
    /\ \E e \in Exceptions, accept \in BOOLEAN :
       \E orig \in OrigOutcomes(e), orig_http \in {"returns", "raises"} :
         /\ func_exc' = [e |-> e, accept |-> accept, orig |-> orig,
                         orig_http |-> IF orig = "delegates" THEN orig_http ELSE "", at |-> "await"]
         /\ resp' = Raised(e.kind)
    /\ pc' = "done"
    /\ UNCHANGED <<ctx, graph, walkVars>>
    /\ UNCHANGED <<ensure_one, params, func_res, fan, pureVars>>

\* the decorator's dispatch on res, with get_toplevel_from_query up to its
\* first connection
dispatch ==
    /\ pc = "dispatch"
    /\ CASE func_res.kind \in {"Query", "ScalarResult"} ->
              LET cm == ctx.connection_manager
              IN IF cm.iterable /\ cm.conns = 0
                 THEN /\ resp' = merge_toplevels(<<>>)
                      /\ pc' = "done"
                      /\ fan' = [NoFan EXCEPT !.ensure_one = query_ensure_one(func_res, ensure_one)]
                 ELSE /\ fan' = [NoFan EXCEPT !.ensure_one = query_ensure_one(func_res, ensure_one),
                                              !.conn = 1]
                      /\ pc' = "get_toplevel"
                      /\ resp' = resp
         [] func_res.kind = "TopLevel" ->
              /\ resp' = document_response(func_res.doc)
              /\ pc' = "done"
              /\ fan' = fan
         [] OTHER ->
              /\ resp' = Raised("InternalServerError")
              /\ pc' = "done"
              /\ fan' = fan
    /\ UNCHANGED <<ctx, graph, walkVars, ensure_one, params, func_res, func_exc, pureVars>>

\* the connection's context is entered (__enter__) or left (__exit__)
enter(conn) == [ev |-> "enter", conn |-> conn]

exit(conn) == [ev |-> "exit", conn |-> conn]

\* `with connection_manager:` and get_toplevel in it, up to its call of
\* toplevel_from_data or toplevel_from_pagination; the NotFound it raises
\* leaves the with block and comes to the decorator's except clause
get_toplevel ==
    /\ pc = "get_toplevel"
    /\ renders' = [r \in Res |-> 0]
    /\ reached' = {}
    /\ cut' = {}
    /\ IF fan.ensure_one
       THEN LET resource == one(func_res.values)
            IN IF resource.raised # ""
               THEN /\ resp' = not_found_response(ensure_one)
                    /\ pc' = "done"
                    /\ args' = args
                    /\ fan' = [fan EXCEPT !.log = @ \o <<enter(fan.conn), exit(fan.conn)>>]
               ELSE /\ args' = [NoArgs EXCEPT !.fn = "data", !.res = resource.value,
                                              !.include = ctx.include]
                    /\ pc' = "call"
                    /\ resp' = resp
                    /\ fan' = [fan EXCEPT !.log = Append(@, enter(fan.conn))]
       ELSE IF func_res.kind # "Query"
            THEN /\ resp' = Raised("InternalServerError")
                 /\ pc' = "done"
                 /\ args' = args
                 /\ fan' = [fan EXCEPT !.log = @ \o <<enter(fan.conn), exit(fan.conn)>>]
            ELSE /\ args' = [NoArgs EXCEPT
                               !.fn = "page",
                               !.include = ctx.include,
                               !.paginate = <<ctx.page, ctx.per_page, ctx.max_per_page>>,
                               !.pagination = ListPagination(func_res.values, ctx.page, ctx.per_page)]
                 /\ pc' = "call"
                 /\ resp' = resp
                 /\ fan' = [fan EXCEPT !.log = Append(@, enter(fan.conn))]
    /\ UNCHANGED <<ctx, graph, todo, stack, included, data, toplevel>>
    /\ UNCHANGED <<ensure_one, params, func_res, func_exc, pureVars>>

\* get_toplevel returns its document and the with block is left: to the
\* decorator, or to the loop over
\* the connections, which merges or goes on with the next connection; behind
\* each connection the handler's rows have resources of their own
get_toplevel_returns ==
    /\ pc = "returned"
    /\ LET cm == ctx.connection_manager
           tops == Append(fan.toplevels, toplevel)
       IN IF ~cm.iterable
          THEN /\ resp' = document_response(toplevel)
               /\ pc' = "done"
               /\ fan' = [fan EXCEPT !.log = Append(@, exit(fan.conn))]
               /\ graph' = graph
          ELSE IF fan.conn < cm.conns
          THEN /\ fan' = [fan EXCEPT !.conn = @ + 1, !.toplevels = tops,
                                      !.log = Append(@, exit(fan.conn))]
               /\ pc' = "get_toplevel"
               /\ resp' = resp
               /\ graph' \in HandlerGraphs(func_res)
          ELSE /\ fan' = [fan EXCEPT !.toplevels = tops, !.log = Append(@, exit(fan.conn))]
               /\ resp' = merge_toplevels(tops)
               /\ pc' = "done"
               /\ graph' = graph
    /\ UNCHANGED <<ctx, walkVars, ensure_one, params, func_res, func_exc, pureVars>>

Next ==
    \/ Request
    \/ create_fetching_context_raises
    \/ func_raises
    \/ func_returns
    \/ func_returns_coroutine
    \/ await_returns
    \/ await_raises
    \/ dispatch
    \/ get_toplevel
    \/ toplevel_from_data
    \/ toplevel_from_pagination
    \/ NextElement
    \/ add_to_included
    \/ Return
    \/ Assemble
    \/ get_toplevel_returns

Spec == Init /\ [][Next]_vars

Fair == Spec /\ WF_vars(Next)

-----------------------------------------------------------------------------
(* FetchingContext.add_pagination on its own *)

\* documents as a caller may hand them over: with or without a link and meta
\* entries of their own, a stale count among them
PaginatedDocs ==
    {[TopLevel("array", <<>>, <<>>) EXCEPT !.links = l, !.meta = m] :
        l \in {{}, {[rel |-> "self", number |-> 0]}},
        m \in {NoMeta, [NoMeta EXCEPT !.other = {"version"}],
               [NoMeta EXCEPT !.kind = "count", !.other = {"version"}]}}

InitPag ==
    /\ pc = "add_pagination"
    /\ ctx = FetchingContext(<<>>, NoFields, <<>>, 0, 0, 0)
    /\ graph = NoGraph
    /\ args = NoArgs
    /\ todo = <<>>
    /\ stack = <<>>
    /\ included = <<>>
    /\ data = <<>>
    /\ toplevel = NoDoc
    /\ renders = [r \in Res |-> 0]
    /\ reached = {}
    /\ cut = {}
    /\ ensure_one = FALSE
    /\ params = NoParams
    /\ func_res = NoRes
    /\ func_exc = NoExc
    /\ fan = NoFan
    /\ resp = NoResp
    /\ \E total \in 0..MaxTotal, page \in 0..(MaxPage + 1), per_page \in 0..MaxPerPage :
         pagination = CursorPagination(total, page, per_page)
    /\ document \in PaginatedDocs
    /\ filter = NoFilter
    /\ predicate = NoPredicate
    /\ call = NoCall
    /\ result = NoResult

\* fetching_context.add_pagination(toplevel, pagination)
call_add_pagination ==
    /\ pc = "add_pagination"
    /\ document' = add_pagination(document, pagination)
    /\ pc' = "paginated"
    /\ UNCHANGED <<ctx, graph, walkVars, decVars, pagination, filter, predicate, call, result>>

NextPag == call_add_pagination

SpecPag == InitPag /\ [][NextPag]_vars

-----------------------------------------------------------------------------
(* The filter translators of fetching.py and of sql.py on their own.       *)
(* A translator gets the python type of the column, the operator of the    *)
(* key ("" when the key has none) and the list of values, of which the     *)
(* model keeps the length: the values are taken to be parseable.  It gives *)
(* a list of n predicates of one operator, or raises UnprocessableEntity.  *)

ColumnTypes == {"bool", "str", "int", "datetime", "list", "none"}

\* the operators of the code, and one that no translator knows
Operators ==
    {"", "eq", "neq", "ilike", "nilike", "contains", "ncontains", "in", "nin",
     "ge", "gt", "le", "lt", "null", "regex"}

\* [column <oper> v, ...]: n predicates
predicates(oper, n) ==
    [kind |-> "predicates", oper |-> oper, n |-> n, holds |-> FALSE, exc |-> ""]

\* column.in_(value) handed back as it is, not in a list
bare_predicate == [kind |-> "predicate", oper |-> "eq", n |-> 1, holds |-> FALSE, exc |-> ""]

\* raise UnprocessableEntity(msg)
UnprocessableEntity ==
    [kind |-> "raised", oper |-> "", n |-> 0, holds |-> FALSE, exc |-> "UnprocessableEntity"]

\* oper or 'eq'
or_eq(oper) == IF oper = "" THEN "eq" ELSE oper

\* sort_operator, mapped over the values: nothing is called for no value
sort_operator(oper, n) ==
    IF n = 0 THEN predicates(oper, 0)
    ELSE IF oper \in {"eq", "neq", "ge", "gt", "le", "lt"} THEN predicates(oper, n)
    ELSE UnprocessableEntity

\* fetching.bool_sql_filter: oper is not looked at
bool_sql_filter(oper, n) ==
    IF n # 1 THEN UnprocessableEntity ELSE predicates("eq", 1)

\* fetching.str_sql_filter
str_sql_filter(oper, n) ==
    LET o == or_eq(oper)
    IN IF o = "eq" THEN predicates("eq", 1)
       ELSE IF o \in {"ilike", "nilike", "contains", "ncontains"} THEN predicates(o, n)
       ELSE UnprocessableEntity

\* fetching.int_sql_filter
int_sql_filter(oper, n) ==
    LET o == or_eq(oper)
    IN IF o \notin {"eq", "neq", "ge", "gt", "le", "lt", "in"} THEN UnprocessableEntity
       ELSE IF o = "in" THEN predicates("in", n)
       ELSE sort_operator(o, n)

\* fetching.datetime_sql_filter
datetime_sql_filter(oper, n) ==
    LET o == or_eq(oper)
    IN IF o \notin {"eq", "neq", "ge", "gt", "le", "lt"} THEN UnprocessableEntity
       ELSE sort_operator(o, n)

\* str_to_bool of a string of digits, given as the number it spells
str_to_bool(val) == val = 1

\* the test for null that both dispatchers start with: column.is_(None) or
\* its negation, by the first value
null_filter(n, first) ==
    IF n # 1 THEN UnprocessableEntity
    ELSE IF str_to_bool(first) THEN predicates("is_null", 1) ELSE predicates("is_not_null", 1)

\* fetching.sql_filter: a list column has no branch of its own
sql_filter(type, oper, n, first) ==
    IF oper = "null" THEN null_filter(n, first)
    ELSE CASE type = "bool" -> bool_sql_filter(oper, n)
           [] type = "str" -> str_sql_filter(oper, n)
           [] type = "int" -> int_sql_filter(oper, n)
           [] type = "datetime" -> datetime_sql_filter(oper, n)
           [] OTHER -> bare_predicate

\* sql.bool_filter: oper is not looked at
bool_filter(oper, n) ==
    IF n # 1 THEN UnprocessableEntity ELSE predicates("eq", 1)

\* sql.str_filter
str_filter(oper, n) ==
    LET o == or_eq(oper)
    IN IF o \in {"eq", "neq", "in", "nin"} THEN predicates(o, 1)
       ELSE IF o \in {"ilike", "nilike", "contains", "ncontains"} THEN predicates(o, n)
       ELSE UnprocessableEntity

\* sql.int_filter
int_filter(oper, n) ==
    LET o == or_eq(oper)
    IN IF o = "in" THEN predicates("in", n) ELSE sort_operator(o, n)

\* sql.datetime_filter
datetime_filter(oper, n) == sort_operator(or_eq(oper), n)

\* sql.list_filter
list_filter(oper, n) ==
    IF oper = "contains" THEN predicates("contains", 1)
    ELSE IF oper = "ncontains" THEN predicates("ncontains", n)
    ELSE UnprocessableEntity

\* sql.typed_filter
typed_filter(type, oper, n, first) ==
    IF oper = "null" THEN null_filter(n, first)
    ELSE CASE type = "bool" -> bool_filter(oper, n)
           [] type = "str" -> str_filter(oper, n)
           [] type = "int" -> int_filter(oper, n)
           [] type = "datetime" -> datetime_filter(oper, n)
           [] type = "list" -> list_filter(oper, n)
           [] OTHER -> bare_predicate

\* the in-memory filter has its answer for the model at hand
answer(holds) == [kind |-> "bool", oper |-> "", n |-> 0, holds |-> holds, exc |-> ""]

\* an exception that is not an HTTP error leaves the filter
raises(exc) == [kind |-> "raised", oper |-> "", n |-> 0, holds |-> FALSE, exc |-> exc]

\* fetching.base_model_filter on the integer attribute of a model (None when
\* is_none) and an integer value: `value in column` is not defined on them
base_model_filter(column, is_none, oper, value) ==
    LET o == or_eq(oper)
    IN CASE o = "eq" -> answer(~is_none /\ column = value)
         [] o = "neq" -> answer(is_none \/ column # value)
         [] o \in {"contains", "ncontains"} -> raises("TypeError")
         [] OTHER -> UnprocessableEntity

\* FetchingContext.pydantic_filters for one criterion on an attribute
\* annotated int: value is the list of the criterion's values, strings of
\* digits given as the numbers they spell
pydantic_filters(column, is_none, oper, value) ==
    IF oper = "null"
    THEN IF value = <<>> THEN raises("IndexError")
         ELSE IF str_to_bool(value[1]) THEN answer(is_none) ELSE answer(~is_none)
    ELSE IF value = <<>> THEN raises("IndexError")
    ELSE base_model_filter(column, is_none, oper, value[1])

\* the filters handed to the relational translators: the number of values
\* and the number the first of them spells
RelationalFilters ==
    {f \in [translator : {"fetching", "sql"}, type : ColumnTypes, oper : Operators,
            values : 0..MaxFilterValues, first : {0, 1}] : f.values = 0 => f.first = 0}

\* the filters handed to the in-memory filter
MemoryFilters ==
    LET Values == UNION {[1..k -> 0..MaxAttr] : k \in 0..MaxFilterValues}
    IN {[translator |-> "memory", type |-> "int", oper |-> o, value |-> v,
         column |-> c, is_none |-> FALSE] : o \in Operators, v \in Values, c \in 0..MaxAttr}
       \cup {[translator |-> "memory", type |-> "int", oper |-> o, value |-> v,
              column |-> 0, is_none |-> TRUE] : o \in Operators, v \in Values}

InitFilter ==
    /\ pc = "filter"
    /\ ctx = FetchingContext(<<>>, NoFields, <<>>, 0, 0, 0)
    /\ graph = NoGraph
    /\ args = NoArgs
    /\ todo = <<>>
    /\ stack = <<>>
    /\ included = <<>>
    /\ data = <<>>
    /\ toplevel = NoDoc
    /\ renders = [r \in Res |-> 0]
    /\ reached = {}
    /\ cut = {}
    /\ ensure_one = FALSE
    /\ params = NoParams
    /\ func_res = NoRes
    /\ func_exc = NoExc
    /\ fan = NoFan
    /\ resp = NoResp
    /\ pagination = NoPagination
    /\ document = NoDoc
    /\ filter \in RelationalFilters \cup MemoryFilters
    /\ predicate = NoPredicate
    /\ call = NoCall
    /\ result = NoResult

\* FetchingContext.sql_filters hands a filter to fetching.sql_filter
call_sql_filter ==
    /\ pc = "filter"
    /\ filter.translator = "fetching"
    /\ predicate' = sql_filter(filter.type, filter.oper, filter.values, filter.first)
    /\ pc' = "filtered"
    /\ UNCHANGED <<ctx, graph, walkVars, decVars, pagination, document, filter, call, result>>

\* sql.sql_filter hands a filter to sql.typed_filter
call_typed_filter ==
    /\ pc = "filter"
    /\ filter.translator = "sql"
    /\ predicate' = typed_filter(filter.type, filter.oper, filter.values, filter.first)
    /\ pc' = "filtered"
    /\ UNCHANGED <<ctx, graph, walkVars, decVars, pagination, document, filter, call, result>>

\* the in-memory filter is asked whether a model passes a criterion
call_pydantic_filters ==
    /\ pc = "filter"
    /\ filter.translator = "memory"
    /\ predicate' = pydantic_filters(filter.column, filter.is_none, filter.oper, filter.value)
    /\ pc' = "filtered"
    /\ UNCHANGED <<ctx, graph, walkVars, decVars, pagination, document, filter, call, result>>

NextFilter ==
    \/ call_sql_filter
    \/ call_typed_filter
    \/ call_pydantic_filters

SpecFilter == InitFilter /\ [][NextFilter]_vars

-----------------------------------------------------------------------------
(* Other functions of the extension on their own: call holds the name of   *)
(* the function and its arguments, result what it gives.                    *)

\* the filter keys of a request: u.n, u.r.n, u1.n, u1.r.n
FilterKeys ==
    {<<type, <<"n">>>> : type \in Types} \cup {<<type, <<"r">>, <<"n">>>> : type \in Types}

\* the `filters` parameter as the list of its keys, at most MaxKeys of them
FilterLists ==
    UNION {{f \in [1..n -> FilterKeys] : \A i, j \in 1..n : i # j => f[i] # f[j]} : n \in 0..MaxKeys}

\* the column attributes of the sql model, and its other descriptors (a
\* relationship)
ColumnAttrs == {<<"a">>, <<"b">>}

OrmDescriptors == ColumnAttrs \cup {<<"r">>}

\* sort keys as strings: columns, a relationship, an unknown name, with and
\* without a leading - and a dotted attribute
SortKeys ==
    {<<"a">>, <<"-", "a">>, <<"b">>, <<"-", "b">>, <<"r">>, <<"r", ".", "a">>,
     <<"-", "r", ".", "a">>, <<"x">>, <<"x", ".", "a">>, <<"-">>, <<"-", "-", "a">>}

\* the `sort` parameter as the list of its keys, at most MaxSort of them
SortLists == UNION {[1..n -> SortKeys] : n \in 0..MaxSort}

\* the attribute mappings jsonapi_attributes may give for a dict-backed
\* resource: a name, with or without a type and a numeric id of its own
AttributeMappings ==
    {[k \in keys |-> CASE k = "type" -> <<"t">> [] k = "id" -> id [] OTHER -> <<"x">>] :
        keys \in {{"name"} \cup more : more \in SUBSET {"type", "id"}}, id \in 1..MaxId}

\* the calls under study
Calls ==
    {[fn |-> "get_filter_parameters", filters__ |-> f, jsonapi_type |-> type] :
        f \in FilterLists, type \in Types}
    \cup {[fn |-> "sql_order_by", sort |-> keys] : keys \in SortLists}
    \cup {[fn |-> fn, jsonapi_type |-> type, jsonapi_id |-> <<"1">>, attrs |-> attrs] :
            fn \in {"to_ressource_data", "to_resource"}, type \in {<<>>, <<"u">>},
            attrs \in AttributeMappings}
    \cup {[fn |-> "paginate", values |-> values, page |-> page, per_page |-> per_page] :
            values \in Lists(MaxTotal), page \in 0..(MaxTotal + 1), per_page \in 0..MaxPerPage}

returns(value) == [kind |-> "returns", value |-> value]

\* raise UnprocessableEntity(msg)
unprocessable(msg) == [kind |-> "raised", value |-> msg]

\* key.split('.', 1)[0]
RECURSIVE before_dot(_)
before_dot(key) ==
    IF key = <<>> \/ key[1] = "." THEN <<>> ELSE <<key[1]>> \o before_dot(Tail(key))

\* the body of the loop of sql_order_by for one key: the column, descending
\* when the key starts with -, or the exception
order_clause(sort_key) ==
    LET asc_sort == startswith(sort_key, <<"-">>)
        key == IF asc_sort THEN Tail(sort_key) ELSE sort_key
    IN IF "." \in Range(key)
       THEN IF before_dot(key) \in OrmDescriptors
            THEN unprocessable("Sort on relationship is not implemented")
            ELSE unprocessable("Undefined sort key")
       ELSE IF key \in ColumnAttrs
            THEN returns([column |-> key, desc |-> asc_sort])
            ELSE unprocessable("Undefined sort key")

RECURSIVE sql_order_by_partial(_)
\* sql_order_by, were it to pass over the keys it cannot order by
sql_order_by_partial(sort) ==
    IF sort = <<>> THEN returns(<<>>)
    ELSE LET clause == order_clause(sort[1])
             rest == sql_order_by_partial(Tail(sort))
         IN IF clause.kind = "raised" THEN rest
            ELSE returns(<<clause.value>> \o rest.value)

RECURSIVE sql_order_by(_)
\* FetchingContext.sql_order_by over self._sort: the first key that cannot be
\* ordered by ends the call
sql_order_by(sort) ==
    IF sort = <<>> THEN returns(<<>>)
    ELSE LET clause == order_clause(sort[1])
             rest == sql_order_by(Tail(sort))
         IN IF clause.kind = "raised" THEN clause
            ELSE IF rest.kind = "raised" THEN rest
            ELSE returns(<<clause.value>> \o rest.value)

InitFn ==
    /\ pc = "call"
    /\ call \in Calls
    /\ result = NoResult
    /\ ctx = IF call.fn = "get_filter_parameters"
             THEN FetchingContext(<<>>, NoFields, call.filters__, 0, 0, 0)
             ELSE FetchingContext(<<>>, NoFields, <<>>, 0, 0, 0)
    /\ graph = NoGraph
    /\ args = NoArgs
    /\ todo = <<>>
    /\ stack = <<>>
    /\ included = <<>>
    /\ data = <<>>
    /\ toplevel = NoDoc
    /\ renders = [r \in Res |-> 0]
    /\ reached = {}
    /\ cut = {}
    /\ ensure_one = FALSE
    /\ params = NoParams
    /\ func_res = NoRes
    /\ func_exc = NoExc
    /\ fan = NoFan
    /\ resp = NoResp
    /\ pagination = NoPagination
    /\ document = NoDoc
    /\ filter = NoFilter
    /\ predicate = NoPredicate

\* fetching_context.get_filter_parameters(jsonapi_type)
call_get_filter_parameters ==
    /\ pc = "call"
    /\ call.fn = "get_filter_parameters"
    /\ result' = returns(get_filter_parameters(ctx, call.jsonapi_type))
    /\ pc' = "called"
    /\ UNCHANGED <<ctx, graph, walkVars, decVars, pagination, document, filter, predicate, call>>

\* str() of a number of one digit
str(n) == <<ToString(n)>>

\* attrs.pop(key): the mapping without the key
pop(attrs, key) == [k \in DOMAIN attrs \ {key} |-> attrs[k]]

\* attrs[key] = value
setitem(attrs, key, value) == [k \in DOMAIN attrs \cup {key} |-> IF k = key THEN value ELSE attrs[k]]

\* the type, the id and the attributes of a rendered resource
type_id(type, id, attributes) ==
    returns([type |-> type, id |-> id, attributes |-> attributes])

\* to_ressource_data, where it settles the type and the id of the resource
\* from the attribute mapping (lines 219-228)
to_ressource_data_type_id(jsonapi_type_, jsonapi_id_, attrs) ==
    LET attrs1 == IF "type" \in DOMAIN attrs THEN pop(attrs, "type") ELSE attrs
        attrs2 == IF "id" \in DOMAIN attrs1 THEN pop(attrs1, "id") ELSE attrs1
    IN type_id(IF "type" \in DOMAIN attrs THEN attrs["type"] ELSE jsonapi_type_,
               IF "id" \in DOMAIN attrs THEN str(attrs["id"]) ELSE jsonapi_id_,
               attrs2)

\* JsonApiDataMixin.to_resource, where it settles the type and the id: a type
\* defined by the class stays, and the attribute is kept as _type
to_resource_type_id(jsonapi_type_, jsonapi_id_, attrs) ==
    IF jsonapi_type_ = <<>> /\ "type" \notin DOMAIN attrs
    THEN [kind |-> "raised", value |-> "KeyError"]
    ELSE LET attrs1 == IF jsonapi_type_ # <<>>
                       THEN IF "type" \in DOMAIN attrs
                            THEN setitem(pop(attrs, "type"), "_type", attrs["type"])
                            ELSE attrs
                       ELSE pop(attrs, "type")
             attrs2 == IF "id" \in DOMAIN attrs1 THEN pop(attrs1, "id") ELSE attrs1
         IN type_id(IF jsonapi_type_ # <<>> THEN jsonapi_type_ ELSE attrs["type"],
                    IF "id" \in DOMAIN attrs THEN str(attrs["id"]) ELSE jsonapi_id_,
                    attrs2)

\* to_ressource_data(jsonapi_data, ...) of a resource without relationships
call_to_ressource_data ==
    /\ pc = "call"
    /\ call.fn = "to_ressource_data"
    /\ result' = to_ressource_data_type_id(call.jsonapi_type, call.jsonapi_id, call.attrs)
    /\ pc' = "called"
    /\ UNCHANGED <<ctx, graph, walkVars, decVars, pagination, document, filter, predicate, call>>

\* jsonapi_data.to_resource(...) of a resource without relationships
call_to_resource ==
    /\ pc = "call"
    /\ call.fn = "to_resource"
    /\ result' = to_resource_type_id(call.jsonapi_type, call.jsonapi_id, call.attrs)
    /\ pc' = "called"
    /\ UNCHANGED <<ctx, graph, walkVars, decVars, pagination, document, filter, predicate, call>>

\* fetching_context.sql_order_by(sql_model)
call_sql_order_by ==
    /\ pc = "call"
    /\ call.fn = "sql_order_by"
    /\ result' = sql_order_by(call.sort)
    /\ pc' = "called"
    /\ UNCHANGED <<ctx, graph, walkVars, decVars, pagination, document, filter, predicate, call>>

\* ListQuery(values=values).paginate(page=page, per_page=per_page, ...): the
\* pagination, the elements iterating it yields, and the elements that
\* iterating the paginations of pages 1..pages yields in turn
call_paginate ==
    /\ pc = "call"
    /\ call.fn = "paginate"
    /\ LET p == ListPagination(call.values, call.page, call.per_page)
       IN result' = returns([pagination |-> p,
                             items |-> PageItems(p),
                             every |-> Flatten([q \in 1..pages(p) |->
                                 PageItems(ListPagination(call.values, q, call.per_page))])])
    /\ pc' = "called"
    /\ UNCHANGED <<ctx, graph, walkVars, decVars, pagination, document, filter, predicate, call>>

NextFn ==
    \/ call_get_filter_parameters
    \/ call_sql_order_by
    \/ call_to_ressource_data
    \/ call_to_resource
    \/ call_paginate

SpecFn == InitFn /\ [][NextFn]_vars

-----------------------------------------------------------------------------
(* Claims about the serializer *)

\* C1: every serialization of a finite resource graph, cyclic or not, ends:
\* the top-level function returns its document.
C1_Terminates == <>(pc = "returned")

\* C1 witness: a serialization has returned in which the recursion was cut on
\* the tombstone of a resource that refers to itself, and one in which it was
\* cut on the tombstone of B in a cycle B -> C -> B.
C1_Witness ==
    /\ pc = "returned"
    /\ \/ \E r \in cut : r \in graph.rel[r]
       \/ \E b \in cut : \E c \in graph.rel[b] : c # b /\ b \in graph.rel[c] /\ renders[c] = 1

\* C2 (as claimed): when A -> B -> A is serialized with A as primary data, no
\* entry of `included` is A.
C2_PrimaryOnce ==
    (/\ pc = "returned"
     /\ args.fn = "data"
     /\ \E b \in graph.rel[args.res] : b # args.res /\ args.res \in graph.rel[b])
    => \A i \in DOMAIN toplevel.included :
          ~(/\ toplevel.included[i].type = jsonapi_type(args.res)
            /\ toplevel.included[i].id = jsonapi_id(args.res))

\* the entries of `included` that are the resource (type, id) of r
EntriesOf(r) ==
    {i \in DOMAIN toplevel.included :
        /\ toplevel.included[i].type = jsonapi_type(r)
        /\ toplevel.included[i].id = jsonapi_id(r)}

\* C3 (as claimed): in a returned document every related resource handed to
\* _add_to_included with its value, over whatever paths and page elements, has
\* exactly one entry in `included` and was rendered for it at most once.
C3_Dedup ==
    pc = "returned" =>
        \A r \in reached : Cardinality(EntriesOf(r)) = 1 /\ renders[r] <= 1

-----------------------------------------------------------------------------
(* Claims about the entry decorator *)

\* the request's handler gave rows and the decorator has answered
AnsweredQuery == pc = "done" /\ func_res.kind \in {"Query", "ScalarResult"}

\* the connection manager is the default one: no fan-out
Single == ~ctx.connection_manager.iterable

\* the page of the handler's rows that the context asks for
ContextPage == PageItems(ListPagination(func_res.values, ctx.page, ctx.per_page))

\* C4: the decorator dispatches on the handler's result.  A Query is fetched
\* with the decorator's ensure_one: paginated with the context's page,
\* per_page and max_per_page and serialized as the collection of that page,
\* or fetched as its single resource; a ScalarResult is always fetched as
\* exactly one resource; a TopLevel is returned as it is; anything else
\* raises InternalServerError; every document comes with code 200.
C4_Dispatch ==
    pc = "done" /\ func_res.kind # "none" =>
        /\ resp.kind = "document" => resp.status = 200
        /\ func_res.kind = "Query" => fan.ensure_one = ensure_one
        /\ func_res.kind = "ScalarResult" => fan.ensure_one
        /\ AnsweredQuery /\ args.fn = "page" =>
              /\ ~fan.ensure_one
              /\ args.paginate = <<ctx.page, ctx.per_page, ctx.max_per_page>>
              /\ args.pagination.values = func_res.values
        /\ AnsweredQuery /\ args.fn = "data" =>
              /\ fan.ensure_one
              /\ func_res.values = <<args.res>>
        /\ AnsweredQuery /\ Single /\ ~fan.ensure_one =>
              /\ resp.kind = "document"
              /\ resp.doc.data_kind = "array"
              /\ [i \in DOMAIN resp.doc.data |-> resp.doc.data[i].res] = ContextPage
              /\ resp.doc.meta.page = ctx.page
              /\ resp.doc.meta.per_page = ctx.per_page
        /\ AnsweredQuery /\ Single /\ fan.ensure_one /\ Len(func_res.values) = 1 =>
              /\ resp.kind = "document"
              /\ resp.doc.data_kind = "object"
        /\ func_res.kind = "TopLevel" => resp = document_response(func_res.doc)
        /\ func_res.kind = "Other" => resp = Raised("InternalServerError")

\* C4 witness: a Query was answered with the second page of its rows, and
\* that page is not empty.
C4_Witness ==
    /\ pc = "done"
    /\ func_res.kind = "Query"
    /\ ~ensure_one
    /\ Single
    /\ ctx.page = 2
    /\ resp.kind = "document"
    /\ resp.doc.data # <<>>

\* C5: a scalar result without any row, in an entry called with
\* ensure_one=false, is answered with a document whose data is the empty
\* array and which has no errors, with code 200; NotFound is not raised.
C5_EmptyScalar ==
    pc = "done" /\ func_res.kind = "ScalarResult" /\ func_res.values = <<>> /\ ~ensure_one =>
        /\ resp.kind = "document"
        /\ resp.status = 200
        /\ resp.doc.data_kind = "array"
        /\ resp.doc.data = <<>>
        /\ resp.doc.errors_kind = "none"

\* C5 witness: get_toplevel ran on such a scalar result and the decorator
\* answered with a document.
C5_Witness ==
    /\ pc = "done"
    /\ func_res.kind = "ScalarResult"
    /\ func_res.values = <<>>
    /\ ~ensure_one
    /\ fan.conn = 1
    /\ resp.kind = "document"

\* C6: in an entry called with ensure_one=true, once get_toplevel has run on
\* rows that are not exactly one, the decorator has raised NotFound and
\* there is no document; on exactly one row the document get_toplevel builds
\* has that resource as its primary data, and so has the answer when the
\* connection manager is the default one.
C6_EnsureOne ==
    /\ AnsweredQuery /\ ensure_one /\ fan.conn >= 1 /\ Len(func_res.values) # 1 =>
          /\ resp = Raised("NotFound")
          /\ toplevel = NoDoc
    /\ pc = "returned" /\ ensure_one =>
          /\ Len(func_res.values) = 1
          /\ toplevel.data_kind = "object"
          /\ Len(toplevel.data) = 1
          /\ toplevel.data[1].res = func_res.values[1]
    /\ AnsweredQuery /\ ensure_one /\ Single /\ Len(func_res.values) = 1 =>
          /\ resp.kind = "document"
          /\ resp.doc = toplevel
          /\ resp.doc.data[1].res = func_res.values[1]

\* C6 witness: NotFound was raised again for a Query with two rows.
C6_Witness ==
    /\ pc = "done"
    /\ ensure_one
    /\ func_res.kind = "Query"
    /\ Len(func_res.values) = 2
    /\ resp = Raised("NotFound")

\* C7 (as claimed): whatever the handler raises, at its call or when its
\* coroutine is awaited, the decorator answers with what the error mapper
\* makes of it.
C7_Mapped ==
    pc = "done" /\ func_exc.at # "none" =>
        resp = handle_user_exception(func_exc.e, func_exc.accept, func_exc.orig,
                                     IF func_exc.orig_http = "" THEN "raises" ELSE func_exc.orig_http)

\* C8: a document built by the serializer (toplevel_from_data,
\* toplevel_from_pagination, the merge over the connections, the empty
\* fallback) has data and no errors; a document built by
\* _toplevel_error_response has errors and no data.
C8_DataXorErrors ==
    /\ pc = "returned" => toplevel.data_kind # "none" /\ toplevel.errors_kind = "none"
    /\ pc = "done" /\ resp.kind = "document" /\ func_res.kind # "TopLevel" =>
          /\ resp.doc.data_kind # "none"
          /\ resp.doc.errors_kind = "none"
          /\ resp.doc.errors = <<>>
    /\ pc = "done" /\ resp.kind = "error" =>
          /\ resp.doc.errors_kind = "array"
          /\ resp.doc.data_kind = "none"
          /\ resp.doc.data = <<>>

\* C8 witness: an error document with two errors was answered.
C8_Witness ==
    /\ pc = "done"
    /\ resp.kind = "error"
    /\ Len(resp.doc.errors) = 2

\* C9: the status code of an error response is the maximum of the statuses
\* of its errors, and its content type is application/vnd.api+json.
C9_StatusIsMax ==
    pc = "done" /\ resp.kind = "error" =>
        /\ resp.doc.errors # <<>>
        /\ \A i \in DOMAIN resp.doc.errors : resp.doc.errors[i].status <= resp.status
        /\ \E i \in DOMAIN resp.doc.errors : resp.doc.errors[i].status = resp.status
        /\ resp.content_type = "application/vnd.api+json"

\* C9 witness: the error response of a JsonApiError whose first error has a
\* lower status than its second.
C9_Witness ==
    /\ pc = "done"
    /\ resp.kind = "error"
    /\ func_exc.e.kind = "JsonApiError"
    /\ Len(resp.doc.errors) = 2
    /\ resp.doc.errors[1].status < resp.doc.errors[2].status

\* the handler raised a ValidationError and the error mapper made its document
ValidationMapped == pc = "done" /\ func_exc.e.kind = "ValidationError" /\ resp.kind = "error"

\* C10 (as claimed): a ValidationError on n fields is answered with code 400
\* and exactly n errors.
C10_OnePerField ==
    ValidationMapped => resp.status = BadRequestCode /\ Len(resp.doc.errors) = func_exc.e.n

\* C10 (amended): a ValidationError on n fields is answered with code 400 and
\* n + 1 errors of status 400: one for each field, then one for the
\* exception as a whole.
C10_OnePerFieldAndSummary ==
    ValidationMapped =>
        /\ resp.status = BadRequestCode
        /\ Len(resp.doc.errors) = func_exc.e.n + 1
        /\ \A i \in DOMAIN resp.doc.errors :
              /\ resp.doc.errors[i].status = BadRequestCode
              /\ resp.doc.errors[i].title = IF i <= func_exc.e.n THEN "field" ELSE "ValidationError"

\* C10 witness: the error document of a ValidationError on two fields.
C10_Witness == ValidationMapped /\ func_exc.e.n = 2

-----------------------------------------------------------------------------
(* Claims about the fan-out over the connections *)

\* the loop over an iterable connection manager has merged its documents
Merged ==
    /\ AnsweredQuery
    /\ ctx.connection_manager.iterable
    /\ resp.kind = "document"
    /\ Len(fan.toplevels) = ctx.connection_manager.conns

\* the type+id of a resource of a document
KeyOf(entry) == entry.type \o entry.id

\* the included entries of the i-th connection's document under key k
EntriesAt(i, k) ==
    {j \in DOMAIN fan.toplevels[i].included : KeyOf(fan.toplevels[i].included[j]) = k}

RECURSIVE SumCounts(_)
\* the sum of the numbers of results of the connections' documents
SumCounts(tops) ==
    IF tops = <<>> THEN 0 ELSE Len(tops[1].data) + SumCounts(Tail(tops))

\* C11 (as claimed): after a merge over several connections, every entry of
\* the merged included is the entry that the first connection, in connection
\* order, that produced its type+id key has written for it.
C11_FirstWriterWins ==
    Merged =>
        \A n \in DOMAIN resp.doc.included :
            LET entry == resp.doc.included[n]
                writers == {i \in DOMAIN fan.toplevels : EntriesAt(i, KeyOf(entry)) # {}}
            IN \A i \in writers :
                 (\A h \in writers : i <= h) =>
                     \E j \in EntriesAt(i, KeyOf(entry)) : fan.toplevels[i].included[j] = entry

\* the connections were entered and left one at a time, in their order: the
\* log is enter 1, exit 1, enter 2, exit 2, ... up to the connection at hand
Sequential ==
    /\ \A k \in DOMAIN fan.log :
          fan.log[k] = IF k % 2 = 1 THEN enter((k + 1) \div 2) ELSE exit(k \div 2)
    /\ Len(fan.log) \in {2 * fan.conn - 2, 2 * fan.conn - 1, 2 * fan.conn} \cup {0}
    /\ pc = "done" => Len(fan.log) % 2 = 0

\* every connection of the iterable connection manager has given its document
AllFetched ==
    /\ AnsweredQuery
    /\ ctx.connection_manager.iterable
    /\ Len(fan.toplevels) = ctx.connection_manager.conns

\* C12 (as claimed): the connections are entered, queried and left one at a
\* time in their order, also when the query fails, and once every connection
\* has given its result the answer is a document whose data is the
\* concatenation of these results in the same order.
C12_SequentialConcat ==
    /\ Sequential
    /\ AllFetched =>
          /\ resp.kind = "document"
          /\ resp.doc.data = Flatten([i \in DOMAIN fan.toplevels |-> fan.toplevels[i].data])

\* C13: the merged document of one connection has the meta and the links of
\* that connection's document; the merged document of several connections has
\* no links and its meta is the count alone, the sum of the numbers of results
\* the connections gave.
C13_MetaLinks ==
    Merged =>
        /\ Len(fan.toplevels) = 1 =>
              /\ resp.doc.meta = fan.toplevels[1].meta
              /\ resp.doc.links = fan.toplevels[1].links
        /\ Len(fan.toplevels) > 1 =>
              /\ resp.doc.links = {}
              /\ resp.doc.meta = [NoMeta EXCEPT !.kind = "count", !.count = SumCounts(fan.toplevels)]

\* two connections have each given a page with a resource, out of more rows
\* than the page holds
C13_Witness ==
    /\ Merged
    /\ Len(fan.toplevels) = 2
    /\ \A i \in DOMAIN fan.toplevels :
          /\ fan.toplevels[i].data # <<>>
          /\ fan.toplevels[i].meta.count > Len(fan.toplevels[i].data)
          /\ fan.toplevels[i].links # {}

-----------------------------------------------------------------------------
(* Claims about the pagination *)

\* the least number of pages of per_page items that hold total items
Ceil(total, per_page) ==
    CHOOSE n \in 0..total : /\ n * per_page >= total
                            /\ \A m \in 0..total : m * per_page >= total => n <= m

\* C14: for a pagination with total >= 0, page >= 1 and per_page > 0, pages is
\* max(1, ceil(total / per_page)), has_prev is page > 1, has_next is
\* page < pages, prev_num is page - 1 when has_prev and None otherwise, next_num
\* is page + 1 when has_next and None otherwise.
C14_Arithmetic ==
    (pagination.total >= 0 /\ pagination.page >= 1 /\ pagination.per_page > 0) =>
        /\ pages(pagination) = Max(<<1, Ceil(pagination.total, pagination.per_page)>>)
        /\ has_prev(pagination) = (pagination.page > 1)
        /\ has_next(pagination) = (pagination.page < pages(pagination))
        /\ prev_num(pagination) = IF has_prev(pagination) THEN pagination.page - 1 ELSE 0
        /\ next_num(pagination) = IF has_next(pagination) THEN pagination.page + 1 ELSE 0

\* a pagination whose last page is not full, at a page with a previous one
C14_Witness ==
    /\ pagination.per_page > 0
    /\ pagination.total % pagination.per_page # 0
    /\ pages(pagination) > 1
    /\ has_prev(pagination)
    /\ prev_num(pagination) = pagination.page - 1

\* the document holds a link of this name
HasLink(rel) == \E l \in document.links : l.rel = rel

\* C15 (as claimed): after add_pagination the document has a prev link if and
\* only if the pagination has a previous page, and a next link if and only if
\* it has a next page, whatever the total and the requested page.
C15_LinksIff ==
    pc = "paginated" =>
        /\ HasLink("prev") <=> has_prev(pagination)
        /\ HasLink("next") <=> has_next(pagination)

\* C16: add_pagination sets the meta.count of the document to the total of
\* the pagination and its meta.pagination to the page, pages and per_page of
\* the pagination, whatever the total, and keeps the meta entries and the
\* links the document had under other keys.
C16_MetaSetOthersKept ==
    [][call_add_pagination =>
          /\ document'.meta.kind = "pagination"
          /\ document'.meta.count = pagination.total
          /\ document'.meta.page = pagination.page
          /\ document'.meta.pages = pages(pagination)
          /\ document'.meta.per_page = pagination.per_page
          /\ document'.meta.other = document.meta.other
          /\ \A l \in document.links : l.rel \notin {"prev", "next"} => l \in document'.links]_vars

\* a document that had a meta entry and a link of its own has been given the
\* count, the pagination and a next link
C16_Witness ==
    /\ pc = "paginated"
    /\ document.meta.other = {"version"}
    /\ document.meta.kind = "pagination"
    /\ document.meta.count = pagination.total
    /\ HasLink("self")
    /\ HasLink("next")

-----------------------------------------------------------------------------
(* Claims about the request parameters *)

\* C17 (as claimed): the per_page handed to paginate, the number of primary
\* resources of a returned page and the per_page it reports never exceed the
\* max_per_page of the context, whatever page[size] and page[max] are.
C17_Clamped ==
    /\ args.fn = "page" => args.pagination.per_page <= ctx.max_per_page
    /\ (AnsweredQuery /\ resp.kind = "document" /\ resp.doc.meta.kind = "pagination") =>
          /\ Len(resp.doc.data) <= ctx.max_per_page
          /\ resp.doc.meta.per_page <= ctx.max_per_page

\* C18 (as claimed): a request with a filter key that is not of the form
\* type.attribute is answered by the decorator with a document of a single
\* error and the status 422.
C18_Rejected422 ==
    pc = "rejected" =>
        /\ resp.kind = "error"
        /\ resp.status = UnprocessableEntityCode
        /\ Len(resp.doc.errors) = 1

-----------------------------------------------------------------------------
(* Claims about the filter translators *)

\* a translator has been applied to a column of this type, with an operator
\* other than the test for null
Filtered(type) == pc = "filtered" /\ filter.type = type /\ filter.oper # "null"

\* C19 (as claimed): for a boolean column a filter yields a predicate if and
\* only if it has no operator, or eq, and exactly one value; any other
\* operator and any other number of values fail.
C19_BoolEqOnly ==
    Filtered("bool") =>
        IF filter.oper \in {"", "eq"} /\ filter.values = 1
        THEN predicate = predicates("eq", 1)
        ELSE predicate = UnprocessableEntity

\* C20 (as claimed): for a string column both translators accept eq (also
\* when no operator is given), neq, ilike, nilike, contains, ncontains, in and
\* nin, and fail for every other operator.
C20_StrOperators ==
    Filtered("str") =>
        IF filter.oper \in {"", "eq", "neq", "ilike", "nilike", "contains", "ncontains", "in", "nin"}
        THEN predicate.kind = "predicates" /\ predicate.oper = or_eq(filter.oper)
        ELSE predicate = UnprocessableEntity

\* a op v on integers
Satisfies(op, a, v) ==
    CASE op = "eq" -> a = v
      [] op = "neq" -> a # v
      [] op = "ge" -> a >= v
      [] op = "gt" -> a > v
      [] op = "le" -> a <= v
      [] op = "lt" -> a < v

SortOperators == {"eq", "neq", "ge", "gt", "le", "lt"}

\* C21 (as claimed): an integer filter with one of eq, neq, ge, gt, le, lt and
\* one value v is accepted by the relational translators, which give the
\* predicate `column op v`, and by the in-memory filter, which keeps a record
\* exactly when its attribute a satisfies a op v; an operator outside these
\* and `in` fails with UnprocessableEntity.
C21_IntOperators ==
    (pc = "filtered" /\ filter.type = "int" /\ filter.oper \notin {"", "null"}) =>
        IF filter.translator = "memory"
        THEN (~filter.is_none /\ Len(filter.value) = 1) =>
               IF filter.oper \in SortOperators
               THEN predicate = answer(Satisfies(filter.oper, filter.column, filter.value[1]))
               ELSE predicate = UnprocessableEntity
        ELSE filter.values = 1 =>
               IF filter.oper \in SortOperators
               THEN predicate = predicates(filter.oper, 1)
               ELSE IF filter.oper = "in" THEN predicate.kind = "predicates"
               ELSE predicate = UnprocessableEntity

\* the values of the filter at hand
FilterValues == IF filter.translator = "memory" THEN Len(filter.value) ELSE filter.values

FirstValue == IF filter.translator = "memory" THEN filter.value[1] ELSE filter.first

\* C22 (as claimed): the null operator is answered before the type of the
\* column is looked at, for every type: with exactly one value by the test
\* "is null" when the value is true and "is not null" when it is false, with
\* no value or several values by a failure.
C22_Null ==
    (pc = "filtered" /\ filter.oper = "null") =>
        IF FilterValues # 1 THEN predicate.kind = "raised"
        ELSE IF filter.translator = "memory"
             THEN predicate = answer(filter.is_none = str_to_bool(FirstValue))
             ELSE predicate = predicates(IF str_to_bool(FirstValue) THEN "is_null" ELSE "is_not_null", 1)

-----------------------------------------------------------------------------
(* Claims about the filter parameters of a type *)

Called(fn) == pc = "called" /\ call.fn = fn

\* C23 (as claimed): the filters given for a type T are the criteria of the
\* request whose key starts with the segment T, each under the rest of its
\* key (attr for T.attr, relation.attr for T.relation.attr), and no criterion
\* of another type, not even of one whose name T starts.
C23_OwnFilters ==
    Called("get_filter_parameters") =>
        LET own == {key \in Range(call.filters__) : key[1] = call.jsonapi_type}
        IN /\ Range(result.value) = {join(Tail(key)) : key \in own}
           /\ Len(result.value) = Cardinality(own)

-----------------------------------------------------------------------------
(* Claims about the sort *)

\* the key names a column attribute, with or without a leading -
Orderable(key) == key \in ColumnAttrs \/ (key # <<>> /\ key[1] = "-" /\ Tail(key) \in ColumnAttrs)

\* C24: sql_order_by fails or gives one order clause for each sort key, in
\* the order of the keys, descending exactly for the keys that start with -;
\* it fails as soon as a key holds a dot or is not a column attribute of the
\* model, and then gives no list at all.
C24_OrderBy ==
    Called("sql_order_by") =>
        IF \A i \in DOMAIN call.sort : Orderable(call.sort[i])
        THEN /\ result.kind = "returns"
             /\ Len(result.value) = Len(call.sort)
             /\ \A i \in DOMAIN call.sort :
                   /\ result.value[i].desc = (call.sort[i][1] = "-")
                   /\ result.value[i].column =
                        IF call.sort[i][1] = "-" THEN Tail(call.sort[i]) ELSE call.sort[i]
        ELSE result.kind = "raised"

\* two keys were ordered by, the second one descending
C24_Witness ==
    /\ Called("sql_order_by")
    /\ result = returns(<<[column |-> <<"b">>, desc |-> FALSE], [column |-> <<"a">>, desc |-> TRUE]>>)

-----------------------------------------------------------------------------
(* Claims about the type and the id of a rendered resource *)

\* C25 (as claimed): when the attribute mapping of a resource holds a type
\* or an id, the rendered resource has that type or id, not the resource's
\* own, and the entry is no longer among its attributes; for to_ressource_data
\* and for JsonApiDataMixin.to_resource alike.
C25_TypeIdOverride ==
    (Called("to_ressource_data") \/ Called("to_resource")) =>
        /\ "type" \in DOMAIN call.attrs =>
              /\ result.kind = "returns"
              /\ result.value.type = call.attrs["type"]
              /\ DOMAIN result.value.attributes = DOMAIN call.attrs \ {"type", "id"}
        /\ ("id" \in DOMAIN call.attrs /\ result.kind = "returns") =>
              /\ result.value.id = str(call.attrs["id"])
              /\ "id" \notin DOMAIN result.value.attributes

-----------------------------------------------------------------------------
(* Claims about the lifetime of the fetching context *)

\* the criteria a list of filter keys spells: the type and the column of each
Criteria(filters__) ==
    {<<SubSeq(k, 1, Len(k) - 1), k[Len(k)]>> : k \in Range(filters__)}

Fieldset(r) == {n[1] : n \in field_names(ctx, jsonapi_type(r))}

\* C27 (as claimed): in a returned document every primary resource that has
\* no relationships has as attributes its fields restricted to the sparse
\* fieldset requested for its type, all its fields when none is requested,
\* and has no relationships member.
C27_AttributesRoundTrip ==
    pc = "returned" =>
        \A i \in DOMAIN toplevel.data :
            graph.rel[toplevel.data[i].res] = {} =>
                /\ toplevel.data[i].attributes =
                       IF Fieldset(toplevel.data[i].res) = {} THEN FieldNames
                       ELSE FieldNames \cap Fieldset(toplevel.data[i].res)
                /\ toplevel.data[i].relationships = <<>>

\* C28 (as claimed): in a returned document two related resources of
\* different (type, id) that were handed to _add_to_included with their value
\* have different accumulator keys, and each has an entry of its own in
\* `included`.
C28_KeyInjective ==
    pc = "returned" =>
        \A r, s \in reached :
            r # s =>
                /\ included_key(r) # included_key(s)
                /\ EntriesOf(r) # {}
                /\ EntriesOf(s) # {}

\* the accumulator keys whose value is the tombstone
Tombstones == {included[i].key : i \in {j \in DOMAIN included : included[j].val = None}}

\* the accumulator keys whose resource is being rendered on the call stack
InProgress == {stack[i].ret : i \in DOMAIN stack} \ {<<>>}

\* C29: a key of the accumulator holds the tombstone only while the rendering
\* of its resource is on the call stack, and when the top-level function has
\* returned no entry of the accumulator or of the document's `included` is
\* the tombstone.
C29_Tombstone ==
    /\ Tombstones \subseteq InProgress
    /\ pc = "returned" =>
          /\ Tombstones = {}
          /\ \A i \in DOMAIN toplevel.included : toplevel.included[i] # None

\* C29 witness: a document was returned with included resources after the
\* recursion was cut on a tombstone.
C29_Witness ==
    /\ pc = "returned"
    /\ cut # {}
    /\ toplevel.included # <<>>

-----------------------------------------------------------------------------
(* Claims about the pagination of a list *)

\* values[start:stop] as the elements at the positions start+1..stop that
\* the list has
Elements(values, start, stop) ==
    LET first == IF start > Len(values) THEN Len(values) ELSE start
        last == IF stop > Len(values) THEN Len(values) ELSE stop
    IN [i \in 1..(last - first) |-> values[first + i]]

\* C30: for a list query paginated with per_page > 0 at page p >= 1, total is
\* len(values), the page yields values[(p-1)*per_page : p*per_page] in their
\* order, the pages 1..pages in turn yield the values, each once, and a page
\* after the last yields nothing.
C30_ListPages ==
    (Called("paginate") /\ call.per_page > 0 /\ call.page >= 1) =>
        /\ result.value.pagination.total = Len(call.values)
        /\ result.value.items =
               Elements(call.values, (call.page - 1) * call.per_page, call.page * call.per_page)
        /\ result.value.every = call.values
        /\ call.page > pages(result.value.pagination) => result.value.items = <<>>

\* C30 witness: the last page of a list of several pages is not full
C30_Witness ==
    /\ Called("paginate")
    /\ call.per_page > 1
    /\ call.page = pages(result.value.pagination)
    /\ call.page > 1
    /\ Len(result.value.items) = 1
    /\ result.value.every = call.values

====
